---- MODULE Spec2Model ----
(***************************************************************************)
(* A model of cocotb.types.logic_array.LogicArray: a fixed-size,           *)
(* arbitrarily-indexed array of four-valued Logic elements.                *)
(*                                                                         *)
(* Two arrays, a (the receiver, "self") and b (the other operand), are     *)
(* built by the constructor; every operator of the class is an action that *)
(* is applied to them.  op names the last operation, pre holds a and b as  *)
(* they were before that operation, arg holds the operation's inputs and   *)
(* res what the operation returned or raised.                              *)
(***************************************************************************)
EXTENDS Integers, Sequences, FiniteSets, TLC

VARIABLES a, b, op, pre, arg, res

vars == <<a, b, op, pre, arg, res>>

(***************************************************************************)
(* Bounds of the model.                                                    *)
(***************************************************************************)
\* longest iterable given to the constructor
MaxLen == 2
\* explicit ranges have their bounds in 0 .. MaxIdx
MaxIdx == 1
\* integers given to the constructor and to == are in -MaxInt .. MaxInt
MaxInt == 4
\* explicit ranges given to the integer constructor have bounds in 0 .. MaxIntIdx
MaxIntIdx == 3
\* integers compared with == are in -1 .. MaxEqInt
MaxEqInt == 3

(***************************************************************************)
(* cocotb.types.logic.Logic: the four values, numbered 0 ('0'), 1 ('1'),   *)
(* 2 ('X') and 3 ('Z').                                                    *)
(***************************************************************************)
LogicValues == {0, 1, 2, 3}

\* the characters Logic() accepts
LogicChars == {"0", "1", "X", "Z", "x", "z"}

\* Logic(c) for a character c
Logic(c) ==
  CASE c = "0" -> 0
    [] c = "1" -> 1
    [] c \in {"X", "x"} -> 2
    [] c \in {"Z", "z"} -> 3

\* Logic(): the default element
LogicDefault == 2

\* str(Logic)
LogicStr(l) ==
  CASE l = 0 -> "0"
    [] l = 1 -> "1"
    [] l = 2 -> "X"
    [] l = 3 -> "Z"

\* Logic.__and__
LogicAnd(x, y) ==
  IF x = 0 \/ y = 0 THEN 0
  ELSE IF x = 1 /\ y = 1 THEN 1
  ELSE 2

\* Logic.__or__
LogicOr(x, y) ==
  IF x = 1 \/ y = 1 THEN 1
  ELSE IF x = 0 /\ y = 0 THEN 0
  ELSE 2

\* Logic.__xor__
LogicXor(x, y) ==
  IF x \in {0, 1} /\ y \in {0, 1}
  THEN (IF x = y THEN 0 ELSE 1)
  ELSE 2

\* Logic.__invert__
LogicNot(x) ==
  CASE x = 0 -> 1
    [] x = 1 -> 0
    [] OTHER -> 2

(***************************************************************************)
(* cocotb.types.range.Range: left, direction, right.                       *)
(***************************************************************************)
Range(l, d, r) == [left |-> l, direction |-> d, right |-> r]

\* range=None
NoRange == [left |-> 0, direction |-> "none", right |-> 0]

\* len(range); a range whose right lies before its left is empty
RangeLen(r) ==
  LET n == IF r.direction = "to" THEN r.right - r.left + 1
           ELSE r.left - r.right + 1
  IN IF n < 0 THEN 0 ELSE n

\* range.reverse(): the bounds swapped, the direction flipped
RangeReverse(r) ==
  Range(r.right, IF r.direction = "to" THEN "downto" ELSE "to", r.left)

\* item in range
RangeContains(r, i) ==
  IF r.direction = "to" THEN r.left <= i /\ i <= r.right
  ELSE r.right <= i /\ i <= r.left

\* Array._translate_index: position in the range -> 1-based place in the
\* stored sequence (the leftmost position is stored first)
TranslateIndex(r, i) ==
  IF r.direction = "to" THEN i - r.left + 1 ELSE r.left - i + 1

(***************************************************************************)
(* Results of an operation.                                                *)
(***************************************************************************)
NoVec == [value |-> <<>>, range |-> NoRange]

RNone == [kind |-> "none", vec |-> NoVec, int |-> 0, bool |-> FALSE]

RVec(v) == [kind |-> "vec", vec |-> v, int |-> 0, bool |-> FALSE]

RInt(n) == [kind |-> "int", vec |-> NoVec, int |-> n, bool |-> FALSE]

RBool(t) == [kind |-> "bool", vec |-> NoVec, int |-> 0, bool |-> t]

ValueError == [kind |-> "ValueError", vec |-> NoVec, int |-> 0, bool |-> FALSE]

IndexError == [kind |-> "IndexError", vec |-> NoVec, int |-> 0, bool |-> FALSE]

IsError(r) == r.kind \in {"ValueError", "IndexError"}

(***************************************************************************)
(* Values given to the constructor.                                        *)
(***************************************************************************)
\* value=None
NoValue == [kind |-> "none", int |-> 0, chars |-> <<>>, logics |-> <<>>]

\* an int
IntValue(n) == [kind |-> "int", int |-> n, chars |-> <<>>, logics |-> <<>>]

\* an iterable of characters (a str)
CharsValue(s) == [kind |-> "chars", int |-> 0, chars |-> s, logics |-> <<>>]

\* an iterable of Logic
LogicsValue(s) == [kind |-> "logics", int |-> 0, chars |-> <<>>, logics |-> s]

Max(x, y) == IF x > y THEN x ELSE y

\* int.bit_length: the number of bits of |n|
RECURSIVE bit_length(_)
bit_length(n) ==
  IF n = 0 THEN 0
  ELSE IF n < 0 THEN bit_length(-n)
  ELSE 1 + bit_length(n \div 2)

\* format(value, "b") for value >= 0: the binary digits, most significant first
RECURSIVE BinDigits(_)
BinDigits(n) ==
  IF n < 2 THEN <<(IF n = 1 THEN "1" ELSE "0")>>
  ELSE Append(BinDigits(n \div 2), IF n % 2 = 1 THEN "1" ELSE "0")

\* n zeros
Zeros(n) == [i \in 1..n |-> "0"]

\* a faulty variant: the magnitude is encoded, two's complement is forgotten
_int_to_bitstr_unsigned(value, n_bits) ==
  LET v == IF value < 0 THEN 0 - value ELSE value
      d == BinDigits(v)
  IN IF Len(d) >= n_bits THEN d ELSE Zeros(n_bits - Len(d)) \o d

\* _int_to_bitstr: format(value, "0{n_bits}b") pads the digits with zeros
\* on the left up to n_bits and never cuts them
_int_to_bitstr(value, n_bits) ==
  LET v == IF value < 0 THEN value + 2^n_bits ELSE value
      d == BinDigits(v)
  IN IF Len(d) >= n_bits THEN d ELSE Zeros(n_bits - Len(d)) \o d

\* [Logic(v) for v in value]
Logics(s) == [i \in 1..Len(s) |-> Logic(s[i])]

Reversed(s) == [i \in 1..Len(s) |-> s[Len(s) + 1 - i]]

(***************************************************************************)
(* LogicArray.__init__                                                     *)
(***************************************************************************)
LogicArrayInit(value, range) ==
  IF value.kind = "none" /\ range = NoRange THEN ValueError
  ELSE IF value.kind = "int" /\ range # NoRange
          /\ (IF value.int < 0 THEN bit_length(value.int + 1) + 1
              ELSE Max(1, bit_length(value.int))) > RangeLen(range)
  THEN ValueError
  ELSE
    LET bitlen == IF value.int < 0 THEN bit_length(value.int + 1) + 1
                  ELSE Max(1, bit_length(value.int))
        _value ==
          CASE value.kind = "none" -> [i \in 1..RangeLen(range) |-> LogicDefault]
            [] value.kind = "int" ->
                 IF range = NoRange
                 THEN Logics(_int_to_bitstr(value.int, bitlen))
                 ELSE Logics(_int_to_bitstr(value.int, RangeLen(range)))
            [] value.kind = "chars" -> Logics(value.chars)
            [] value.kind = "logics" -> value.logics
        _range == IF range = NoRange
                  THEN Range(Len(_value) - 1, "downto", 0)
                  ELSE range
    IN IF Len(_value) # RangeLen(_range) THEN ValueError
       ELSE RVec([value |-> _value, range |-> _range])

(***************************************************************************)
(* Accessors                                                               *)
(***************************************************************************)
\* Array.__len__
ArrayLen(self) == Len(self.value)

\* LogicArray.binstr
binstr(self) == [i \in 1..Len(self.value) |-> LogicStr(self.value[i])]

\* LogicArray.is_resolvable
is_resolvable(self) == \A i \in 1..Len(self.value) : self.value[i] \in {0, 1}

RECURSIVE FoldBits(_, _)
FoldBits(s, acc) ==
  IF s = <<>> THEN acc ELSE FoldBits(Tail(s), 2 * acc + Head(s))

\* LogicArray.integer (also __index__, hence int(self)); int(bit) raises
\* ValueError for X and Z
integer(self) ==
  IF is_resolvable(self) THEN RInt(FoldBits(self.value, 0)) ELSE ValueError

\* LogicArray.signed_integer
signed_integer(self) ==
  LET value == integer(self)
  IN IF IsError(value) THEN value
     ELSE IF ArrayLen(self) = 0 THEN ValueError  \* 1 << -1
     ELSE IF value.int >= 2^(ArrayLen(self) - 1)
          THEN RInt(value.int - 2^ArrayLen(self))
          ELSE value

(***************************************************************************)
(* LogicArray.reverse                                                      *)
(***************************************************************************)
reverse(self) ==
  LogicArrayInit(LogicsValue(Reversed(self.value)), RangeReverse(self.range))

(***************************************************************************)
(* LogicArray.__eq__: other is an int, a str or a LogicArray               *)
(***************************************************************************)
OtherInt(n) == [kind |-> "int", int |-> n, chars |-> <<>>, vec |-> NoVec]

OtherStr(s) == [kind |-> "str", int |-> 0, chars |-> s, vec |-> NoVec]

OtherVec(v) == [kind |-> "vec", int |-> 0, chars |-> <<>>, vec |-> v]

\* a faulty variant: two arrays are equal only when their ranges are equal too
__eq__with_range(self, other) ==
  CASE other.kind = "int" ->
         LET i == integer(self)
         IN IF IsError(i) THEN i ELSE RBool(i.int = other.int)
    [] other.kind = "str" ->
         LET o == LogicArrayInit(CharsValue(other.chars), NoRange)
         IN IF IsError(o) THEN o ELSE RBool(binstr(self) = binstr(o.vec))
    [] other.kind = "vec" ->
         RBool(binstr(self) = binstr(other.vec) /\ self.range = other.vec.range)

__eq__(self, other) ==
  CASE other.kind = "int" ->
         LET i == integer(self)
         IN IF IsError(i) THEN i ELSE RBool(i.int = other.int)
    [] other.kind = "str" ->
         LET o == LogicArrayInit(CharsValue(other.chars), NoRange)
         IN IF IsError(o) THEN o ELSE RBool(binstr(self) = binstr(o.vec))
    [] other.kind = "vec" -> RBool(binstr(self) = binstr(other.vec))

(***************************************************************************)
(* Bitwise operators                                                       *)
(***************************************************************************)
\* a faulty variant: the result is given the left operand's range
__and__keeps_range(self, other) ==
  IF ArrayLen(self) # ArrayLen(other) THEN ValueError
  ELSE LogicArrayInit(LogicsValue([i \in 1..Len(self.value) |->
                                  LogicAnd(self.value[i], other.value[i])]), self.range)

__and__(self, other) ==
  IF ArrayLen(self) # ArrayLen(other) THEN ValueError
  ELSE LogicArrayInit(LogicsValue([i \in 1..Len(self.value) |->
                                  LogicAnd(self.value[i], other.value[i])]), NoRange)

\* a faulty variant: no length check, zip() stops at the shorter operand
__or__truncating(self, other) ==
  LogicArrayInit(
    LogicsValue([i \in 1..(IF ArrayLen(self) < ArrayLen(other)
                           THEN ArrayLen(self) ELSE ArrayLen(other)) |->
                   LogicOr(self.value[i], other.value[i])]),
    NoRange)

__or__(self, other) ==
  IF ArrayLen(self) # ArrayLen(other) THEN ValueError
  ELSE LogicArrayInit(LogicsValue([i \in 1..Len(self.value) |->
                                  LogicOr(self.value[i], other.value[i])]), NoRange)

__xor__(self, other) ==
  IF ArrayLen(self) # ArrayLen(other) THEN ValueError
  ELSE LogicArrayInit(LogicsValue([i \in 1..Len(self.value) |->
                                  LogicXor(self.value[i], other.value[i])]), NoRange)

__invert__(self) ==
  LogicArrayInit(
    LogicsValue([i \in 1..Len(self.value) |-> LogicNot(self.value[i])]),
    NoRange)

(***************************************************************************)
(* LogicArray.__add__                                                      *)
(***************************************************************************)
\* a faulty variant: an ascending range is extended at its left end
__add__extends_left(self, other) ==
  LET largest_range == IF ArrayLen(self) > ArrayLen(other)
                       THEN self.range ELSE other.range
      range == IF largest_range.direction = "downto"
               THEN Range(largest_range.left + 1, largest_range.direction,
                          largest_range.right)
               ELSE Range(largest_range.left - 1, largest_range.direction,
                          largest_range.right)
      x == integer(self)
      y == integer(other)
  IN IF IsError(x) THEN x
     ELSE IF IsError(y) THEN y
     ELSE LogicArrayInit(IntValue(x.int + y.int), range)

__add__(self, other) ==
  LET largest_range == IF ArrayLen(self) > ArrayLen(other)
                       THEN self.range ELSE other.range
      range == IF largest_range.direction = "downto"
               THEN Range(largest_range.left + 1, largest_range.direction,
                          largest_range.right)
               ELSE Range(largest_range.left, largest_range.direction,
                          largest_range.right + 1)
      x == integer(self)
      y == integer(other)
  IN IF IsError(x) THEN x
     ELSE IF IsError(y) THEN y
     ELSE LogicArrayInit(IntValue(x.int + y.int), range)

(***************************************************************************)
(* LogicArray.__bool__: scan binstr from the left                          *)
(***************************************************************************)
RECURSIVE BoolScan(_)
BoolScan(s) ==
  IF s = <<>> THEN RBool(FALSE)
  ELSE IF Head(s) = "X" \/ Head(s) = "Z" THEN ValueError
  ELSE IF Head(s) = "1" THEN RBool(TRUE)
  ELSE BoolScan(Tail(s))

\* a faulty variant: any X or Z raises, wherever it stands
__bool__strict(self) ==
  IF is_resolvable(self) THEN BoolScan(binstr(self)) ELSE ValueError

__bool__(self) == BoolScan(binstr(self))

(***************************************************************************)
(* In-place operators: the new receiver and what the call returned or      *)
(* raised                                                                  *)
(***************************************************************************)
InPlace(self, result) ==
  IF IsError(result) THEN [self |-> self, res |-> result]
  ELSE [self |-> [self EXCEPT !.value = result.vec.value], res |-> RNone]

__ior__(self, other) == InPlace(self, __or__(self, other))

__ixor__(self, other) == InPlace(self, __xor__(self, other))

__iand__(self, other) == InPlace(self, __and__(self, other))

__iadd__(self, other) == InPlace(self, __add__(self, other))

(***************************************************************************)
(* Array.__setitem__ and LogicArray.__setitem__                            *)
(***************************************************************************)
\* Array.__setitem__(int, value)
ArraySetItem(self, item, value) ==
  IF ~RangeContains(self.range, item) THEN [self |-> self, res |-> IndexError]
  ELSE LET idx == TranslateIndex(self.range, item)
       IN IF idx > Len(self.value) THEN [self |-> self, res |-> IndexError]
          ELSE [self |-> [self EXCEPT !.value[idx] = value], res |-> RNone]

\* Array.__setitem__(slice(start, stop), values)
ArraySetSlice(self, start, stop, values) ==
  IF ~RangeContains(self.range, start) \/ ~RangeContains(self.range, stop)
  THEN [self |-> self, res |-> IndexError]
  ELSE LET start_i == TranslateIndex(self.range, start)
           stop_i == TranslateIndex(self.range, stop)
       IN IF start_i > stop_i THEN [self |-> self, res |-> IndexError]
          ELSE IF Len(values) # stop_i - start_i + 1
          THEN [self |-> self, res |-> ValueError]
          ELSE [self |-> [self EXCEPT !.value =
                            [i \in 1..Len(self.value) |->
                               IF start_i <= i /\ i <= stop_i
                               THEN values[i - start_i + 1]
                               ELSE self.value[i]]],
                res |-> RNone]

\* LogicArray.__setitem__ with an int item
SetItemInt(self, item, value) == ArraySetItem(self, item, Logic(value))

\* LogicArray.__setitem__ with a slice item
SetItemSlice(self, start, stop, values) ==
  ArraySetSlice(self, start, stop, Logics(values))

(***************************************************************************)
(* Inputs                                                                  *)
(***************************************************************************)
Directions == {"to", "downto"}

\* the explicit ranges given to the constructor of a and b: the ascending
\* and the descending ranges of at least one position with bounds in 0..MaxIdx
Ranges ==
  {r \in {Range(l, d, h) : l \in 0..MaxIdx, d \in Directions, h \in 0..MaxIdx} :
     RangeLen(r) >= 1}

\* the strings given to the constructor
Strings == UNION {[1..n -> LogicChars] : n \in 0..MaxLen}

\* the integers given to the constructor
Ints == (0 - MaxInt)..MaxInt

\* the explicit ranges given to the constructor together with an int
IntRanges ==
  {Range(l, d, r) : l \in 0..MaxIntIdx, d \in Directions, r \in 0..MaxIntIdx}

\* what the constructor is called with to build a and b
Constructions ==
  {<<v, r>> : v \in {NoValue} \cup {CharsValue(s) : s \in Strings},
              r \in Ranges \cup {NoRange}}
  \cup {<<IntValue(n), NoRange>> : n \in Ints}

\* the arrays the constructor returns
Constructed ==
  {LogicArrayInit(c[1], c[2]).vec :
     c \in {d \in Constructions : ~IsError(LogicArrayInit(d[1], d[2]))}}

NoArg == [int |-> 0, chars |-> <<>>, range |-> NoRange]

\* str.lower()
Lower(s) ==
  [i \in 1..Len(s) |->
     CASE s[i] = "X" -> "x" [] s[i] = "Z" -> "z" [] OTHER -> s[i]]

(***************************************************************************)
(* The two arrays after construction                                       *)
(***************************************************************************)
Init ==
  /\ a \in Constructed
  /\ b \in Constructed
  /\ op = "init"
  /\ pre = [a |-> a, b |-> b]
  /\ arg = NoArg
  /\ res = RNone

(***************************************************************************)
(* Operations that write to a                                              *)
(***************************************************************************)
Mutate(name, out) ==
  /\ a' = out.self
  /\ res' = out.res
  /\ op' = name
  /\ pre' = [a |-> a, b |-> b]
  /\ arg' = NoArg
  /\ UNCHANGED b

\* a[item] = value
SetItem ==
  \E item \in 0..MaxIdx, value \in LogicChars :
    Mutate("setitem", SetItemInt(a, item, value))

\* a[start:stop] = b.binstr
SetSlice ==
  \E start \in 0..MaxIdx, stop \in 0..MaxIdx :
    Mutate("setslice", SetItemSlice(a, start, stop, binstr(b)))

\* a &= b
IAnd == Mutate("iand", __iand__(a, b))

\* a |= b
IOr == Mutate("ior", __ior__(a, b))

\* a ^= b
IXor == Mutate("ixor", __ixor__(a, b))

\* a += b
IAdd == Mutate("iadd", __iadd__(a, b))

(***************************************************************************)
(* Operations that return a value                                          *)
(***************************************************************************)
Return(name, input, result) ==
  /\ res' = result
  /\ op' = name
  /\ pre' = [a |-> a, b |-> b]
  /\ arg' = input
  /\ UNCHANGED <<a, b>>

\* a & b
And == Return("and", NoArg, __and__(a, b))

\* a | b
Or == Return("or", NoArg, __or__(a, b))

\* a ^ b
Xor == Return("xor", NoArg, __xor__(a, b))

\* ~a
Invert == Return("invert", NoArg, __invert__(a))

\* a + b
Add == Return("add", NoArg, __add__(a, b))

\* a.reverse()
Reverse == Return("reverse", NoArg, reverse(a))

\* a.reverse().reverse()
ReverseTwice ==
  Return("reverse2", NoArg,
         IF IsError(reverse(a)) THEN reverse(a) ELSE reverse(reverse(a).vec))

\* bool(a)
Bool == Return("bool", NoArg, __bool__(a))

\* a == b
EqVec == Return("eq", NoArg, __eq__(a, OtherVec(b)))

\* b == a
EqVecSwapped == Return("eq_swapped", NoArg, __eq__(b, OtherVec(a)))

\* a == a
EqSelf == Return("eq_self", NoArg, __eq__(a, OtherVec(a)))

\* a == b.binstr and a == b.binstr.lower()
EqStr ==
  \E s \in {binstr(b), Lower(binstr(b))} :
    Return("eq_str", [NoArg EXCEPT !.chars = s], __eq__(a, OtherStr(s)))

\* a == n
EqInt ==
  \E n \in -1..MaxEqInt :
    Return("eq_int", [NoArg EXCEPT !.int = n], __eq__(a, OtherInt(n)))

\* LogicArray(n) and LogicArray(n, range)
Construct ==
  \E n \in Ints, range \in IntRanges \cup {NoRange} :
    Return("construct", [NoArg EXCEPT !.int = n, !.range = range],
           LogicArrayInit(IntValue(n), range))

(***************************************************************************)
(* Spec: writes, in-place operators, addition and reversal                 *)
(***************************************************************************)
Next ==
  \/ SetItem
  \/ SetSlice
  \/ IAnd
  \/ IOr
  \/ IXor
  \/ IAdd
  \/ Add
  \/ Reverse
  \/ ReverseTwice

Spec == Init /\ [][Next]_vars

(***************************************************************************)
(* SpecOps: the operators between two arrays and their in-place forms      *)
(***************************************************************************)
NextOps ==
  \/ And
  \/ Or
  \/ Xor
  \/ Invert
  \/ Add
  \/ IAnd
  \/ IOr
  \/ IXor
  \/ IAdd

SpecOps == Init /\ [][NextOps]_vars

(***************************************************************************)
(* SpecObserve: comparisons and boolean coercion                           *)
(***************************************************************************)
NextObserve ==
  \/ Bool
  \/ EqVec
  \/ EqVecSwapped
  \/ EqSelf
  \/ EqStr
  \/ EqInt
  \/ IAdd

SpecObserve == Init /\ [][NextObserve]_vars

(***************************************************************************)
(* SpecInit: construction from an integer                                  *)
(***************************************************************************)
InitOne ==
  /\ a = LogicArrayInit(NoValue, Range(0, "to", 0)).vec
  /\ b = a
  /\ op = "init"
  /\ pre = [a |-> a, b |-> b]
  /\ arg = NoArg
  /\ res = RNone

SpecInit == InitOne /\ [][Construct]_vars

(***************************************************************************)
(* Properties                                                              *)
(***************************************************************************)
\* the unsigned value of a sequence of 0/1 elements, most significant first
RECURSIVE Weighted(_)
Weighted(s) ==
  IF s = <<>> THEN 0 ELSE s[1] * 2^(Len(s) - 1) + Weighted(Tail(s))

InPlaceOps == {"iand", "ior", "ixor", "iadd"}

\* what the binary operator of an in-place operator returns
BinaryOf(name, x, y) ==
  CASE name = "iand" -> __and__(x, y)
    [] name = "ior" -> __or__(x, y)
    [] name = "ixor" -> __xor__(x, y)
    [] name = "iadd" -> __add__(x, y)

\* C1: in every reachable state the number of stored elements of an array
\* equals the length of its range, after construction and after any writes
\* and in-place operators.
C1_LengthInvariant ==
  /\ Len(a.value) = RangeLen(a.range)
  /\ Len(b.value) = RangeLen(b.range)

\* C2: after a successful in-place operator the receiver holds the elements
\* of the binary operator's result and, for +=, that result's range; the
\* other operand is as before.
C2_InPlaceIsBinaryResult ==
  (op \in InPlaceOps /\ res = RNone) =>
    LET result == BinaryOf(op, pre.a, pre.b).vec
    IN /\ a.value = result.value
       /\ (op = "iadd" => a.range = result.range)
       /\ b = pre.b

\* C3: for operands with an unsigned integer value, a + b is a vector of
\* length max(len(a), len(b)) + 1 whose unsigned value is the sum.
C3_AddWidthAndValue ==
  (op = "add" /\ is_resolvable(a) /\ is_resolvable(b)) =>
    /\ res.kind = "vec"
    /\ Len(res.vec.value) = Max(Len(a.value), Len(b.value)) + 1
    /\ is_resolvable(res.vec)
    /\ Weighted(res.vec.value) = Weighted(a.value) + Weighted(b.value)

\* C7: reverse() returns a new vector of the same length with mirrored
\* elements and the range's bounds in the opposite direction, leaves the
\* receiver as it was, and applied twice gives back the receiver.
C7_ReverseInvolution ==
  /\ op = "reverse" =>
       /\ res.kind = "vec"
       /\ Len(res.vec.value) = Len(a.value)
       /\ \A i \in 1..Len(a.value) :
            res.vec.value[i] = a.value[Len(a.value) + 1 - i]
       /\ res.vec.range.left = a.range.right
       /\ res.vec.range.right = a.range.left
       /\ res.vec.range.direction # a.range.direction
       /\ a = pre.a
  /\ op = "reverse2" =>
       /\ res.kind = "vec"
       /\ res.vec = a
       /\ a = pre.a

BitwiseOps == {"and", "or", "xor", "iand", "ior", "ixor"}

\* the truth table of a bitwise operator
TableOf(name, x, y) ==
  CASE name = "and" -> LogicAnd(x, y)
    [] name = "or" -> LogicOr(x, y)
    [] name = "xor" -> LogicXor(x, y)

\* C4 as stated: for equal-length operands a & b, a | b, a ^ b and ~a
\* return a vector of the same length whose range is the left operand's.
C4_LeftRangeKept ==
  /\ (op \in {"and", "or", "xor"} /\ Len(a.value) = Len(b.value)) =>
       /\ res.kind = "vec"
       /\ Len(res.vec.value) = Len(a.value)
       /\ res.vec.range = a.range
  /\ op = "invert" =>
       /\ res.kind = "vec"
       /\ Len(res.vec.value) = Len(a.value)
       /\ res.vec.range = a.range

\* C4 as amended: for equal-length operands a & b, a | b, a ^ b and ~a
\* return a new vector of the same length, holding the truth table's value
\* at each position, whose range is Range(len - 1, 'downto', 0) whatever
\* the operands' ranges are; the operands are left as they were.
C4_ResultRangeZeroBased ==
  /\ (op \in {"and", "or", "xor"} /\ Len(a.value) = Len(b.value)) =>
       /\ res.kind = "vec"
       /\ Len(res.vec.value) = Len(a.value)
       /\ \A i \in 1..Len(a.value) :
            res.vec.value[i] = TableOf(op, a.value[i], b.value[i])
       /\ res.vec.range = Range(Len(a.value) - 1, "downto", 0)
       /\ a = pre.a /\ b = pre.b
  /\ op = "invert" =>
       /\ res.kind = "vec"
       /\ Len(res.vec.value) = Len(a.value)
       /\ \A i \in 1..Len(a.value) : res.vec.value[i] = LogicNot(a.value[i])
       /\ res.vec.range = Range(Len(a.value) - 1, "downto", 0)
       /\ a = pre.a /\ b = pre.b

\* C4 witness: a & b on equal-length operands whose left range is ascending
C4_Witness ==
  /\ op = "and"
  /\ Len(a.value) = 2 /\ Len(b.value) = 2
  /\ a.range = Range(0, "to", 1)
  /\ res.kind = "vec"
  /\ res.vec.range = Range(1, "downto", 0)

\* C5: &, |, ^ and &=, |=, ^= on operands of different lengths raise a
\* size error, and both operands are as they were.
C5_MismatchRaises ==
  (op \in BitwiseOps /\ Len(pre.a.value) # Len(pre.b.value)) =>
    /\ res = ValueError
    /\ a = pre.a
    /\ b = pre.b

\* C5 witness: a |= b with a longer than b raised
C5_Witness ==
  /\ op = "ior"
  /\ Len(pre.a.value) = 2 /\ Len(pre.b.value) = 1
  /\ res = ValueError

\* the operand whose range a + b extends
LargerOperand == IF Len(a.value) > Len(b.value) THEN a ELSE b

\* C9 as stated: the range of a + b is the larger operand's range extended
\* by one position at its left end, in either direction.
C9_ExtendedAtLeft ==
  (op = "add" /\ res.kind = "vec") =>
    \E o \in (IF Len(a.value) = Len(b.value) THEN {a, b} ELSE {LargerOperand}) :
      res.vec.range =
        Range(IF o.range.direction = "downto" THEN o.range.left + 1
              ELSE o.range.left - 1,
              o.range.direction, o.range.right)

\* C9 as amended: whenever a + b returns a vector, its range is the longer
\* operand's range (the right operand's when the lengths are equal) with
\* its upper bound raised by one and its direction kept: left + 1 for a
\* descending range, right + 1 for an ascending one.
C9_ExtendedAtUpperBound ==
  (op = "add" /\ res.kind = "vec") =>
    LET r == LargerOperand.range
    IN res.vec.range =
         IF r.direction = "downto" THEN Range(r.left + 1, "downto", r.right)
         ELSE Range(r.left, "to", r.right + 1)

\* C9 witness: equal lengths, the right operand's ascending range is extended
C9_Witness ==
  /\ op = "add"
  /\ Len(a.value) = 2 /\ Len(b.value) = 2
  /\ a.range = Range(1, "downto", 0)
  /\ b.range = Range(0, "to", 1)
  /\ res.kind = "vec"
  /\ res.vec.range = Range(0, "to", 2)

\* the minimal width of an integer as C6 states it
MinWidth(n) ==
  IF n < 0 THEN bit_length(n + 1) + 1 ELSE Max(1, bit_length(n))

\* the bits read back as n: unsigned for n >= 0, two's complement for n < 0
ReadsBack(v, n) ==
  IF n >= 0
  THEN is_resolvable(v) /\ Weighted(v.value) = n
  ELSE signed_integer(v) = RInt(n)

\* C6: construction from an integer n never truncates: with a range of
\* length L it fails when the minimal width of n exceeds L and otherwise
\* yields exactly L bits that read back as n; with no range it yields the
\* minimal width; LogicArray(0) is '0' and LogicArray(-4) over four
\* positions is '1100'.
C6_IntConstruction ==
  op = "construct" =>
    LET n == arg.int
        L == RangeLen(arg.range)
    IN /\ (arg.range # NoRange /\ MinWidth(n) > L) => res = ValueError
       /\ (arg.range # NoRange /\ MinWidth(n) <= L) =>
            /\ res.kind = "vec"
            /\ Len(res.vec.value) = L
            /\ res.vec.range = arg.range
            /\ ReadsBack(res.vec, n)
       /\ arg.range = NoRange =>
            /\ res.kind = "vec"
            /\ Len(res.vec.value) = MinWidth(n)
            /\ res.vec.range = Range(MinWidth(n) - 1, "downto", 0)
            /\ ReadsBack(res.vec, n)
       /\ (n = 0 /\ arg.range = NoRange) => binstr(res.vec) = <<"0">>
       /\ (n = -4 /\ arg.range = Range(0, "to", 3)) =>
            binstr(res.vec) = <<"1", "1", "0", "0">>

\* C6 witness: LogicArray(-4, Range(0, 'to', 3)) is '1100'
C6_Witness ==
  /\ op = "construct"
  /\ arg.int = -4
  /\ arg.range = Range(0, "to", 3)
  /\ res.kind = "vec"
  /\ binstr(res.vec) = <<"1", "1", "0", "0">>

\* str.upper()
Upper(s) ==
  [i \in 1..Len(s) |->
     CASE s[i] = "x" -> "X" [] s[i] = "z" -> "Z" [] OTHER -> s[i]]

\* the same symbol at every position
SameSymbols(x, y) ==
  /\ Len(x) = Len(y)
  /\ \A i \in 1..Len(x) : x[i] = y[i]

\* C8: two vectors are equal exactly when they hold the same symbol at
\* every position, whatever their ranges (so == is reflexive and symmetric
\* and X or Z never equals 0 or 1); a string is compared as the vector it
\* parses to; an integer is compared with the unsigned integer value.
C8_EqualityBySymbols ==
  /\ op = "eq" => res = RBool(SameSymbols(a.value, b.value))
  /\ op = "eq_swapped" => res = RBool(SameSymbols(a.value, b.value))
  /\ op = "eq_self" => res = RBool(TRUE)
  /\ op = "eq_str" =>
       res = RBool(SameSymbols(binstr(a), Upper(arg.chars)))
  /\ (op = "eq_int" /\ is_resolvable(a)) =>
       res = RBool(Weighted(a.value) = arg.int)

\* C8 witness: two vectors with X and Z and different ranges compare equal
C8_Witness ==
  /\ op = "eq"
  /\ a.range # b.range
  /\ a.value = <<2, 3>>
  /\ res = RBool(TRUE)

====
